---- MODULE Spec2Model ----
(***************************************************************************)
(* Model of synthesize.py: main() reads five settings from the process    *)
(* environment, reads and trims a text file, asks Polly to synthesize the *)
(* text as MP3, reads the audio stream and uploads it to S3.              *)
(*                                                                         *)
(* One action per statement of main().  Strings the program only passes   *)
(* around (environment values, bucket, key, voice, region) are TLA+       *)
(* strings; the file content, which the program trims, is a sequence of   *)
(* one-character strings; the audio payload is a sequence of bytes.       *)
(***************************************************************************)
EXTENDS Integers, Sequences, FiniteSets, TLC

(* ---------------------------- bounds ---------------------------------- *)
MaxLen == 3          \* longest file content, in characters
MaxAudioLen == 1     \* longest audio payload, in bytes

(* ------------------------ input alphabets ------------------------------ *)
Chars == {" ", "\n", "a"}
Bytes == {0, 255}
Paths == {"speech.txt", "in.txt"}

RECURSIVE SeqsUpTo(_, _)
SeqsUpTo(S, n) ==
    IF n = 0 THEN {<< >>}
    ELSE LET shorter == SeqsUpTo(S, n - 1)
         IN  shorter \cup {Append(s, c) : s \in {t \in shorter : Len(t) = n - 1}, c \in S}

Contents == SeqsUpTo(Chars, MaxLen)
Blobs == SeqsUpTo(Bytes, MaxAudioLen)

(* ------------------------ program literals ----------------------------- *)
DefaultTextFile == "speech.txt"
DefaultVoiceId == "Joanna"
DefaultRegion == "us-east-1"
OutputFormat == "mp3"
ContentType == "audio/mpeg"
EmptyDiagnostic == "Text file is empty."
ExitEmpty == 1       \* sys.exit(1)
ExitUncaught == 1    \* status of a Python process ended by an uncaught exception
ExitOk == 0          \* status of a Python process whose script ran to its end

(* Characters str.strip() removes when called without an argument. *)
Whitespace == {" ", "\t", "\n", "\r", "\f"}

(* ------------------------ pure helpers --------------------------------- *)
(* Variant: a setting whose value is empty counts as unset. *)
EnvGetEmptyAsUnset(e, k, d) == IF k \in DOMAIN e /\ e[k] # "" THEN e[k] ELSE d

(* os.environ.get(k, d): the value when the key is present, else d. *)
EnvGet(e, k, d) == IF k \in DOMAIN e THEN e[k] ELSE d

(* os.environ[k] raises KeyError exactly when the key is absent. *)
EnvHas(e, k) == k \in DOMAIN e

RECURSIVE LStrip(_)
LStrip(s) ==
    IF s = << >> THEN << >>
    ELSE IF Head(s) \in Whitespace THEN LStrip(Tail(s)) ELSE s

RECURSIVE RStrip(_)
RStrip(s) ==
    IF s = << >> THEN << >>
    ELSE IF s[Len(s)] \in Whitespace THEN RStrip(SubSeq(s, 1, Len(s) - 1)) ELSE s

(* Variant: lstrip() in place of strip(). *)
StripLeftOnly(s) == LStrip(s)

(* str.strip() *)
Strip(s) == RStrip(LStrip(s))

(* f"Uploaded s3://{s3_bucket}/{s3_key}" *)
UploadedMsg(b, k) == "Uploaded s3://" \o b \o "/" \o k

(* ----------------------------- state ----------------------------------- *)
VARIABLES
    env,          \* os.environ: a function whose domain is the set of present names
    fsPath,       \* the one path of the file system that holds a file
    fsDecodable,  \* whether that file's bytes are valid UTF-8
    fsContent,    \* its decoded content
    pc,           \* the statement main() is about to execute
    text_file, s3_bucket, s3_key, voice_id, region,   \* main()'s locals
    text, polly, resp, audio, s3,
    fileOpen,     \* the handle f is open
    synthCalls,   \* synthesize_speech requests issued, in order
    putCalls,     \* put_object requests issued, in order
    stdout,       \* lines printed
    steps,        \* steps of the pipeline completed, in order
    outcome,      \* how the run ended
    exitStatus    \* process exit status, -1 while running

vars == <<env, fsPath, fsDecodable, fsContent, pc, text_file, s3_bucket, s3_key,
          voice_id, region, text, polly, resp, audio, s3, fileOpen, synthCalls,
          putCalls, stdout, steps, outcome, exitStatus>>

inputs == <<env, fsPath, fsDecodable, fsContent>>
locals == <<text_file, s3_bucket, s3_key, voice_id, region, text, polly, resp, audio, s3>>
history == <<synthCalls, putCalls, stdout, steps>>

Unbound == "<unbound>"
NoClient == [service |-> "", region |-> ""]
Running == -1

EnvNames == {"TEXT_FILE", "S3_BUCKET", "S3_KEY", "VOICE_ID", "AWS_REGION"}
EnvValues(k) ==
    CASE k = "TEXT_FILE"  -> {"", "in.txt"}
      [] k = "S3_BUCKET"  -> {"", "my-bucket"}
      [] k = "S3_KEY"     -> {"", "out/hello.mp3"}
      [] k = "VOICE_ID"   -> {"", "Matthew"}
      [] k = "AWS_REGION" -> {"", "eu-west-1"}

Envs ==
    UNION {{e \in [D -> UNION {EnvValues(k) : k \in EnvNames}] :
               \A k \in D : e[k] \in EnvValues(k)} : D \in SUBSET EnvNames}

Init ==
    /\ env \in Envs
    /\ fsPath \in Paths
    /\ \/ fsDecodable = TRUE /\ fsContent \in Contents
       \/ fsDecodable = FALSE /\ fsContent = << >>
    /\ pc = "L4"
    /\ text_file = Unbound /\ s3_bucket = Unbound /\ s3_key = Unbound
    /\ voice_id = Unbound /\ region = Unbound
    /\ text = << >> /\ polly = NoClient /\ resp = << >> /\ audio = << >> /\ s3 = NoClient
    /\ fileOpen = FALSE
    /\ synthCalls = << >> /\ putCalls = << >> /\ stdout = << >> /\ steps = << >>
    /\ outcome = "running"
    /\ exitStatus = Running

(* An exception nothing catches: the interpreter ends the process.  The       *)
(* with-block's __exit__ runs on the way out, so the handle is closed.        *)
Raise(kind) ==
    /\ pc' = "done"
    /\ outcome' = kind
    /\ exitStatus' = ExitUncaught
    /\ fileOpen' = FALSE

(* ---------------------------- actions ---------------------------------- *)
(* line 4 *)
GetTextFile ==
    /\ pc = "L4"
    /\ text_file' = EnvGet(env, "TEXT_FILE", DefaultTextFile)
    /\ pc' = "L5"
    /\ UNCHANGED <<inputs, s3_bucket, s3_key, voice_id, region, text, polly, resp,
                   audio, s3, fileOpen, history, outcome, exitStatus>>

(* Variant of line 5: os.environ.get("S3_BUCKET", ""), which never raises. *)
GetBucketDefaulted ==
    /\ pc = "L5"
    /\ s3_bucket' = EnvGet(env, "S3_BUCKET", "")
    /\ pc' = "L6"
    /\ UNCHANGED <<inputs, text_file, s3_key, voice_id, region, text, polly, resp,
                   audio, s3, fileOpen, history, outcome, exitStatus>>

(* Variant of line 5: an empty S3_BUCKET is rejected as if it were absent. *)
GetBucketRejectEmpty ==
    /\ pc = "L5"
    /\ IF EnvHas(env, "S3_BUCKET") /\ env["S3_BUCKET"] # ""
       THEN /\ s3_bucket' = env["S3_BUCKET"]
            /\ pc' = "L6"
            /\ UNCHANGED <<fileOpen, outcome, exitStatus>>
       ELSE /\ Raise("ConfigurationError")
            /\ UNCHANGED s3_bucket
    /\ UNCHANGED <<inputs, text_file, s3_key, voice_id, region, text, polly, resp,
                   audio, s3, history>>

(* line 5 *)
GetBucket ==
    /\ pc = "L5"
    /\ IF EnvHas(env, "S3_BUCKET")
       THEN /\ s3_bucket' = env["S3_BUCKET"]
            /\ pc' = "L6"
            /\ UNCHANGED <<fileOpen, outcome, exitStatus>>
       ELSE /\ Raise("ConfigurationError")
            /\ UNCHANGED s3_bucket
    /\ UNCHANGED <<inputs, text_file, s3_key, voice_id, region, text, polly, resp,
                   audio, s3, history>>

(* line 6 *)
GetKey ==
    /\ pc = "L6"
    /\ IF EnvHas(env, "S3_KEY")
       THEN /\ s3_key' = env["S3_KEY"]
            /\ pc' = "L7"
            /\ UNCHANGED <<fileOpen, outcome, exitStatus>>
       ELSE /\ Raise("ConfigurationError")
            /\ UNCHANGED s3_key
    /\ UNCHANGED <<inputs, text_file, s3_bucket, voice_id, region, text, polly, resp,
                   audio, s3, history>>

(* line 7 *)
GetVoice ==
    /\ pc = "L7"
    /\ voice_id' = EnvGet(env, "VOICE_ID", DefaultVoiceId)
    /\ pc' = "L8"
    /\ UNCHANGED <<inputs, text_file, s3_bucket, s3_key, region, text, polly, resp,
                   audio, s3, fileOpen, history, outcome, exitStatus>>

(* line 8: the last of the configuration statements *)
GetRegion ==
    /\ pc = "L8"
    /\ region' = EnvGet(env, "AWS_REGION", DefaultRegion)
    /\ pc' = "L10"
    /\ steps' = Append(steps, "config")
    /\ UNCHANGED <<inputs, text_file, s3_bucket, s3_key, voice_id, text, polly, resp,
                   audio, s3, fileOpen, synthCalls, putCalls, stdout, outcome, exitStatus>>

(* line 10: open(text_file, "r", encoding="utf-8") raises when no file is at  *)
(* that path; otherwise the with-block is entered with the handle open.       *)
OpenFile ==
    /\ pc = "L10"
    /\ IF text_file = fsPath
       THEN /\ fileOpen' = TRUE
            /\ pc' = "L11"
            /\ UNCHANGED <<outcome, exitStatus>>
       ELSE Raise("InputError")
    /\ UNCHANGED <<inputs, locals, history>>

(* line 11: f.read() decodes the whole file (UnicodeDecodeError when it is    *)
(* not UTF-8), .strip() trims it.                                             *)
ReadFile ==
    /\ pc = "L11"
    /\ IF fsDecodable
       THEN /\ text' = Strip(fsContent)
            /\ pc' = "L12"
            /\ UNCHANGED <<fileOpen, outcome, exitStatus>>
       ELSE /\ Raise("InputError")
            /\ UNCHANGED text
    /\ UNCHANGED <<inputs, text_file, s3_bucket, s3_key, voice_id, region, polly, resp,
                   audio, s3, history>>

(* Variant of lines 12-14 without sys.exit: the diagnostic is printed and the run goes on. *)
CheckEmptyNoExit ==
    /\ pc = "L12"
    /\ IF text = << >>
       THEN stdout' = Append(stdout, EmptyDiagnostic) /\ UNCHANGED steps
       ELSE steps' = Append(steps, "read") /\ UNCHANGED stdout
    /\ fileOpen' = FALSE
    /\ pc' = "L16"
    /\ UNCHANGED <<inputs, locals, synthCalls, putCalls, outcome, exitStatus>>

(* Variant of lines 12-14 with sys.exit(0). *)
CheckEmptyExitZero ==
    /\ pc = "L12"
    /\ IF text = << >>
       THEN /\ stdout' = Append(stdout, EmptyDiagnostic)
            /\ pc' = "done"
            /\ outcome' = "EmptyInputExit"
            /\ exitStatus' = ExitOk
            /\ UNCHANGED steps
       ELSE /\ pc' = "L16"
            /\ steps' = Append(steps, "read")
            /\ UNCHANGED <<stdout, outcome, exitStatus>>
    /\ fileOpen' = FALSE
    /\ UNCHANGED <<inputs, locals, synthCalls, putCalls>>

(* Variant of lines 12-14 that ends the process without unwinding the with-block. *)
CheckEmptyLeak ==
    /\ pc = "L12"
    /\ IF text = << >>
       THEN /\ stdout' = Append(stdout, EmptyDiagnostic)
            /\ pc' = "done"
            /\ outcome' = "EmptyInputExit"
            /\ exitStatus' = ExitEmpty
            /\ UNCHANGED <<steps, fileOpen>>
       ELSE /\ pc' = "L16"
            /\ steps' = Append(steps, "read")
            /\ fileOpen' = FALSE
            /\ UNCHANGED <<stdout, outcome, exitStatus>>
    /\ UNCHANGED <<inputs, locals, synthCalls, putCalls>>

(* lines 12-14, still inside the with-block: an empty text prints the         *)
(* diagnostic and raises SystemExit(1); otherwise control leaves the block.   *)
(* Either way the block's __exit__ closes the handle.                         *)
CheckEmpty ==
    /\ pc = "L12"
    /\ IF text = << >>
       THEN /\ stdout' = Append(stdout, EmptyDiagnostic)
            /\ pc' = "done"
            /\ outcome' = "EmptyInputExit"
            /\ exitStatus' = ExitEmpty
            /\ UNCHANGED steps
       ELSE /\ pc' = "L16"
            /\ steps' = Append(steps, "read")
            /\ UNCHANGED <<stdout, outcome, exitStatus>>
    /\ fileOpen' = FALSE
    /\ UNCHANGED <<inputs, locals, synthCalls, putCalls>>

(* boto3.client(service, region_name=region) *)
Client(service, r) == [service |-> service, region |-> r]

(* line 16: building the client is a library call that may raise (for         *)
(* instance on a region name botocore rejects); nothing catches it.  A        *)
(* failure of lines 16-18 is recorded as the synthesis step failing.          *)
MakePolly ==
    /\ pc = "L16"
    /\ \/ /\ polly' = Client("polly", region)
          /\ pc' = "L17"
          /\ UNCHANGED <<fileOpen, outcome, exitStatus>>
       \/ /\ Raise("SynthesisError")
          /\ UNCHANGED polly
    /\ UNCHANGED <<inputs, text_file, s3_bucket, s3_key, voice_id, region, text, resp,
                   audio, s3, history>>

(* The request of line 17, sent through client c. *)
SynthRequest(t, v, c) ==
    [Text |-> t, OutputFormat |-> OutputFormat, VoiceId |-> v, region |-> c.region]

(* Variant of line 17 that retries once after a failed request. *)
SynthesizeRetry ==
    /\ pc = "L17"
    /\ synthCalls' = Append(synthCalls, SynthRequest(text, voice_id, polly))
    /\ \/ \E b \in Blobs :
             /\ resp' = b
             /\ pc' = "L18"
             /\ steps' = Append(steps, "synth")
             /\ UNCHANGED <<fileOpen, outcome, exitStatus>>
       \/ /\ IF Len(synthCalls) = 0
             THEN UNCHANGED <<pc, fileOpen, outcome, exitStatus>>
             ELSE Raise("SynthesisError")
          /\ UNCHANGED <<resp, steps>>
    /\ UNCHANGED <<inputs, text_file, s3_bucket, s3_key, voice_id, region, text, polly,
                   audio, s3, putCalls, stdout>>

(* line 17: one synthesize_speech request; the service answers with an audio  *)
(* stream of its choosing or the call raises.                                 *)
Synthesize ==
    /\ pc = "L17"
    /\ synthCalls' = Append(synthCalls, SynthRequest(text, voice_id, polly))
    /\ \/ \E b \in Blobs :
             /\ resp' = b
             /\ pc' = "L18"
             /\ steps' = Append(steps, "synth")
             /\ UNCHANGED <<fileOpen, outcome, exitStatus>>
       \/ /\ Raise("SynthesisError")
          /\ UNCHANGED <<resp, steps>>
    /\ UNCHANGED <<inputs, text_file, s3_bucket, s3_key, voice_id, region, text, polly,
                   audio, s3, putCalls, stdout>>

(* Variant of line 18 that reads no bytes from the stream. *)
ReadAudioTruncated ==
    /\ pc = "L18"
    /\ \/ /\ audio' = << >>
          /\ pc' = "L20"
          /\ steps' = Append(steps, "audio")
          /\ UNCHANGED <<fileOpen, outcome, exitStatus>>
       \/ /\ Raise("SynthesisError")
          /\ UNCHANGED <<audio, steps>>
    /\ UNCHANGED <<inputs, text_file, s3_bucket, s3_key, voice_id, region, text, polly,
                   resp, s3, synthCalls, putCalls, stdout>>

(* line 18: resp["AudioStream"].read() returns every byte of the stream, or   *)
(* raises when the connection breaks while streaming.                         *)
ReadAudio ==
    /\ pc = "L18"
    /\ \/ /\ audio' = resp
          /\ pc' = "L20"
          /\ steps' = Append(steps, "audio")
          /\ UNCHANGED <<fileOpen, outcome, exitStatus>>
       \/ /\ Raise("SynthesisError")
          /\ UNCHANGED <<audio, steps>>
    /\ UNCHANGED <<inputs, text_file, s3_bucket, s3_key, voice_id, region, text, polly,
                   resp, s3, synthCalls, putCalls, stdout>>

(* line 20: as line 16; a failure of lines 20-21 is recorded as the storage   *)
(* step failing.                                                              *)
MakeS3 ==
    /\ pc = "L20"
    /\ \/ /\ s3' = Client("s3", region)
          /\ pc' = "L21"
          /\ UNCHANGED <<fileOpen, outcome, exitStatus>>
       \/ /\ Raise("StorageError")
          /\ UNCHANGED s3
    /\ UNCHANGED <<inputs, text_file, s3_bucket, s3_key, voice_id, region, text, polly,
                   resp, audio, history>>

(* The request of line 21, sent through client c. *)
PutRequest(b, k, body, c) ==
    [Bucket |-> b, Key |-> k, Body |-> body, ContentType |-> ContentType,
     region |-> c.region]

(* Variant of line 21 inside try/except: a failed upload is ignored. *)
PutObjectSwallow ==
    /\ pc = "L21"
    /\ putCalls' = Append(putCalls, PutRequest(s3_bucket, s3_key, audio, s3))
    /\ \/ steps' = Append(steps, "put")
       \/ UNCHANGED steps
    /\ pc' = "L23"
    /\ UNCHANGED <<inputs, locals, synthCalls, stdout, fileOpen, outcome, exitStatus>>

(* line 21: one put_object request; it is stored or the call raises. *)
PutObject ==
    /\ pc = "L21"
    /\ putCalls' = Append(putCalls, PutRequest(s3_bucket, s3_key, audio, s3))
    /\ \/ /\ pc' = "L23"
          /\ steps' = Append(steps, "put")
          /\ UNCHANGED <<fileOpen, outcome, exitStatus>>
       \/ /\ Raise("StorageError")
          /\ UNCHANGED steps
    /\ UNCHANGED <<inputs, locals, synthCalls, stdout>>

(* lines 23-26: print the confirmation; main() returns and the script ends. *)
PrintUploaded ==
    /\ pc = "L23"
    /\ stdout' = Append(stdout, UploadedMsg(s3_bucket, s3_key))
    /\ steps' = Append(steps, "report")
    /\ pc' = "done"
    /\ outcome' = "success"
    /\ exitStatus' = ExitOk
    /\ UNCHANGED <<inputs, locals, fileOpen, synthCalls, putCalls>>

Next ==
    \/ GetTextFile
    \/ GetBucket
    \/ GetKey
    \/ GetVoice
    \/ GetRegion
    \/ OpenFile
    \/ ReadFile
    \/ CheckEmpty
    \/ MakePolly
    \/ Synthesize
    \/ ReadAudio
    \/ MakeS3
    \/ PutObject
    \/ PrintUploaded

Spec == Init /\ [][Next]_vars

(* The calls return or fail, and the interpreter runs the next statement. *)
FairSpec == Spec /\ WF_vars(Next)

(* ======================= properties of a run ============================ *)
(* What the run was given, stated from the inputs alone. *)
GivenTextFile == IF "TEXT_FILE" \in DOMAIN env THEN env["TEXT_FILE"] ELSE "speech.txt"
GivenVoice == IF "VOICE_ID" \in DOMAIN env THEN env["VOICE_ID"] ELSE "Joanna"
GivenRegion == IF "AWS_REGION" \in DOMAIN env THEN env["AWS_REGION"] ELSE "us-east-1"
RequiredPresent == "S3_BUCKET" \in DOMAIN env /\ "S3_KEY" \in DOMAIN env
InputReadable == fsDecodable /\ fsPath = GivenTextFile
InputBlank ==
    InputReadable /\ \A i \in 1..Len(fsContent) : fsContent[i] \in {" ", "\t", "\n", "\r", "\f"}
NoNetworkCall == synthCalls = << >> /\ putCalls = << >>

(* C1 as stated: in every run whose input file is blank (empty after          *)
(* trimming), the run prints the empty-text diagnostic, exits with status 1   *)
(* and issues neither the synthesis call nor the storage call.                *)
C1_BlankInputAlwaysPrintsDiagnostic ==
    InputBlank =>
        /\ NoNetworkCall
        /\ pc = "done" => stdout = <<"Text file is empty.">> /\ exitStatus = 1

(* C1 amended: a blank input file never leads to a network call and always    *)
(* ends with exit status 1; the diagnostic is printed (and the end is the     *)
(* empty-text exit) exactly when S3_BUCKET and S3_KEY are both present, since *)
(* otherwise the run has already failed at the configuration step.            *)
C1_BlankInputExitsWithoutNetwork ==
    InputBlank =>
        /\ NoNetworkCall
        /\ polly = NoClient /\ s3 = NoClient
        /\ pc \in {"L4", "L5", "L6", "L7", "L8", "L10", "L11", "L12", "done"}
        /\ pc = "done" =>
              /\ exitStatus = 1
              /\ IF RequiredPresent
                 THEN stdout = <<"Text file is empty.">> /\ outcome = "EmptyInputExit"
                 ELSE stdout = << >> /\ outcome = "ConfigurationError"

C1_Witness ==
    /\ InputBlank /\ RequiredPresent /\ Len(fsContent) = MaxLen
    /\ pc = "done" /\ stdout = <<"Text file is empty.">> /\ exitStatus = 1

(* C2: when S3_BUCKET or S3_KEY is absent the run ends in a configuration     *)
(* error with a non-zero status before anything else happens: no file is      *)
(* opened, no client is built, no synthesis or storage call is issued,        *)
(* whatever the other settings and the input file are.                        *)
C2_MissingRequiredFailsBeforeNetwork ==
    ~RequiredPresent =>
        /\ NoNetworkCall
        /\ polly = NoClient /\ s3 = NoClient /\ ~fileOpen
        /\ pc \in {"L4", "L5", "L6", "done"}
        /\ pc = "done" =>
              outcome = "ConfigurationError" /\ exitStatus > 0 /\ stdout = << >>

C2_Witness ==
    /\ "S3_BUCKET" \notin DOMAIN env /\ "S3_KEY" \in DOMAIN env
    /\ InputReadable /\ ~InputBlank
    /\ pc = "done" /\ outcome = "ConfigurationError"

(* C3: every synthesis request carries the file content with its leading and  *)
(* trailing whitespace removed and nothing else changed (a non-empty text     *)
(* that starts and ends with a non-whitespace character and sits in the       *)
(* content between two runs of whitespace), output format mp3 and the         *)
(* configured voice.                                                          *)
C3_SynthesisGetsTrimmedTextMp3Voice ==
    \A i \in 1..Len(synthCalls) :
        LET c == synthCalls[i]
            n == Len(c.Text)
            ws == {" ", "\t", "\n", "\r", "\f"}
        IN  /\ c.OutputFormat = "mp3"
            /\ c.VoiceId = GivenVoice
            /\ n > 0
            /\ c.Text[1] \notin ws /\ c.Text[n] \notin ws
            /\ \E a \in 0..Len(fsContent) :
                  /\ a + n <= Len(fsContent)
                  /\ c.Text = SubSeq(fsContent, a + 1, a + n)
                  /\ \A j \in 1..a : fsContent[j] \in ws
                  /\ \A j \in (a + n + 1)..Len(fsContent) : fsContent[j] \in ws

C3_Witness ==
    /\ fsContent = <<" ", "a", "\n">>
    /\ Len(synthCalls) = 1 /\ synthCalls[1].Text = <<"a">>
    /\ synthCalls[1].VoiceId = "Matthew"

(* C4: every storage request carries exactly the bytes of this run's          *)
(* synthesis response, the configured S3_BUCKET and S3_KEY, and content type  *)
(* audio/mpeg.                                                                *)
C4_StorageGetsAudioBucketKey ==
    \A i \in 1..Len(putCalls) :
        /\ RequiredPresent
        /\ putCalls[i].Body = resp
        /\ putCalls[i].Bucket = env["S3_BUCKET"]
        /\ putCalls[i].Key = env["S3_KEY"]
        /\ putCalls[i].ContentType = "audio/mpeg"

C4_Witness ==
    /\ Len(putCalls) = 1 /\ putCalls[1].Body = <<255>>
    /\ putCalls[1].Bucket = "my-bucket" /\ putCalls[1].Key = "out/hello.mp3"

(* C5: a line other than the empty-text diagnostic is printed only after the  *)
(* storage call has succeeded, it is "Uploaded s3://<S3_BUCKET>/<S3_KEY>",    *)
(* and no run that ends in a failure has printed it; a successful run has     *)
(* printed exactly that line.                                                 *)
C5_ConfirmationOnlyAfterUpload ==
    /\ \A i \in 1..Len(stdout) :
          stdout[i] # "Text file is empty." =>
              /\ RequiredPresent
              /\ stdout[i] = "Uploaded s3://" \o env["S3_BUCKET"] \o "/" \o env["S3_KEY"]
              /\ Len(putCalls) = 1
              /\ Len(steps) >= 5 /\ steps[5] = "put"
              /\ outcome = "success"
    /\ outcome = "success" => Len(stdout) = 1 /\ stdout[1] # "Text file is empty."
    /\ outcome \in {"ConfigurationError", "InputError", "EmptyInputExit",
                    "SynthesisError", "StorageError"} =>
          stdout \in {<< >>, <<"Text file is empty.">>}

C5_Witness ==
    /\ outcome = "success"
    /\ stdout = <<"Uploaded s3://my-bucket/out/hello.mp3">>

(* C6: the input path, the voice and the region are the environment's value   *)
(* when the variable is set and speech.txt, Joanna, us-east-1 when it is not; *)
(* the file opened, the voice requested and the region of both clients are   *)
(* those resolved values, the two clients sharing one region.                 *)
C6_DefaultsAndSharedRegion ==
    /\ text_file # Unbound => text_file = GivenTextFile
    /\ voice_id # Unbound => voice_id = GivenVoice
    /\ region # Unbound => region = GivenRegion
    /\ fileOpen => fsPath = GivenTextFile
    /\ polly # NoClient => polly.service = "polly" /\ polly.region = GivenRegion
    /\ s3 # NoClient => s3.service = "s3" /\ s3.region = GivenRegion /\ s3.region = polly.region
    /\ \A i \in 1..Len(synthCalls) :
          synthCalls[i].VoiceId = GivenVoice /\ synthCalls[i].region = GivenRegion
    /\ \A i \in 1..Len(putCalls) : putCalls[i].region = GivenRegion

C6_Witness ==
    /\ DOMAIN env = {"S3_BUCKET", "S3_KEY"}
    /\ fsPath = "speech.txt"
    /\ Len(putCalls) = 1 /\ putCalls[1].region = "us-east-1"
    /\ Len(synthCalls) = 1 /\ synthCalls[1].region = "us-east-1"
    /\ synthCalls[1].VoiceId = "Joanna"

(* C7: the completed steps are always a prefix of config, read, synth, audio, *)
(* put, report; each call is issued at most once; the storage call is issued  *)
(* only after the synthesis call and the audio read succeeded; a failure      *)
(* leaves the steps where they were and nothing happens after the run ended.  *)
C7_StrictOrderSingleAttempt ==
    /\ [](LET Order == <<"config", "read", "synth", "audio", "put", "report">>
          IN  /\ Len(steps) <= 6 /\ steps = SubSeq(Order, 1, Len(steps))
              /\ Len(synthCalls) <= 1 /\ Len(putCalls) <= 1
              /\ Len(synthCalls) = 1 => Len(steps) >= 2
              /\ Len(steps) >= 3 => Len(synthCalls) = 1
              /\ Len(putCalls) = 1 => Len(steps) >= 4 /\ Len(synthCalls) = 1 /\ audio = resp
              /\ Len(steps) >= 5 => Len(putCalls) = 1
              /\ outcome = "ConfigurationError" => pc = "done" /\ Len(steps) = 0
              /\ outcome \in {"InputError", "EmptyInputExit"} => pc = "done" /\ Len(steps) = 1
              /\ outcome = "SynthesisError" =>
                    pc = "done" /\ Len(steps) \in {2, 3} /\ putCalls = << >>
              /\ outcome = "StorageError" => pc = "done" /\ Len(steps) = 4
              /\ outcome = "success" => pc = "done" /\ Len(steps) = 6)
    /\ [][pc = "done" => UNCHANGED vars]_vars

C7_Witness ==
    /\ outcome = "StorageError" /\ pc = "done"
    /\ Len(synthCalls) = 1 /\ Len(putCalls) = 1
    /\ steps = <<"config", "read", "synth", "audio">>

(* C8: every run ends, in exactly one of the six outcomes, and the outcome    *)
(* and status then stay; the status is 0 exactly for success (which implies   *)
(* the storage call completed), 1 for the empty-text exit and non-zero for    *)
(* every error.                                                               *)
C8_TerminatesWithOneOutcome ==
    /\ <>(pc = "done")
    /\ [](/\ pc # "done" => outcome = "running" /\ exitStatus = Running
          /\ pc = "done" =>
                /\ outcome \in {"success", "ConfigurationError", "InputError",
                                "EmptyInputExit", "SynthesisError", "StorageError"}
                /\ exitStatus >= 0
                /\ exitStatus = 0 <=> outcome = "success"
                /\ outcome = "success" => Len(steps) >= 5 /\ steps[5] = "put"
                /\ outcome = "EmptyInputExit" => exitStatus = 1)
    /\ [][pc = "done" => outcome' = outcome /\ exitStatus' = exitStatus]_vars

C8_Witness ==
    /\ pc = "done" /\ outcome = "EmptyInputExit" /\ exitStatus = 1

(* C9: the file handle is open exactly between the open and the end of the    *)
(* with-block; it is closed before a client is built or a call is issued and  *)
(* in every final state, the empty-text exit and a decoding failure included. *)
C9_FileHandleScoped ==
    /\ fileOpen <=> pc \in {"L11", "L12"}
    /\ pc = "done" => ~fileOpen
    /\ (polly # NoClient \/ synthCalls # << >>) => ~fileOpen

C9_Witness ==
    /\ pc = "done" /\ outcome = "EmptyInputExit" /\ ~fileOpen
    /\ InputBlank /\ fsContent # << >>

(* C10: only absence of S3_BUCKET or S3_KEY is a configuration error; an      *)
(* empty value is kept, so with a readable non-blank input the run goes on to *)
(* the synthesis step with the empty value still held for the storage call;   *)
(* an empty TEXT_FILE, VOICE_ID or AWS_REGION is kept too, not defaulted.     *)
C10_PresenceNotEmptiness ==
    /\ outcome = "ConfigurationError" => ~RequiredPresent
    /\ s3_bucket # Unbound => s3_bucket = env["S3_BUCKET"]
    /\ s3_key # Unbound => s3_key = env["S3_KEY"]
    /\ \A k \in {"S3_BUCKET", "S3_KEY"} :
          (k \in DOMAIN env /\ env[k] = "" /\ RequiredPresent /\ InputReadable /\ ~InputBlank) =>
              /\ pc = "done" /\ synthCalls = << >> =>
                     outcome = "SynthesisError" /\ polly = NoClient
              /\ \A i \in 1..Len(putCalls) :
                     putCalls[i].Bucket = env["S3_BUCKET"] /\ putCalls[i].Key = env["S3_KEY"]
    /\ ("TEXT_FILE" \in DOMAIN env /\ env["TEXT_FILE"] = "" /\ text_file # Unbound) =>
          text_file = ""
    /\ ("VOICE_ID" \in DOMAIN env /\ env["VOICE_ID"] = "" /\ voice_id # Unbound) =>
          voice_id = "" /\ \A i \in 1..Len(synthCalls) : synthCalls[i].VoiceId = ""
    /\ ("AWS_REGION" \in DOMAIN env /\ env["AWS_REGION"] = "" /\ region # Unbound) =>
          region = "" /\ (polly # NoClient => polly.region = "")

C10_Witness ==
    /\ "S3_BUCKET" \in DOMAIN env /\ env["S3_BUCKET"] = ""
    /\ "VOICE_ID" \in DOMAIN env /\ env["VOICE_ID"] = ""
    /\ Len(synthCalls) = 1 /\ synthCalls[1].VoiceId = ""
    /\ Len(putCalls) = 1 /\ putCalls[1].Bucket = ""

====
